---------------------------- MODULE Spec2Model ----------------------------
(***************************************************************************)
(* A model of app.py: the key normaliser (normalize_str), the key builder  *)
(* (normalize_df_key), the key guesser (best_guess_keys), the file reader  *)
(* (read_any) and the script that loads two tables, selects the keys,      *)
(* merges the tables with pandas.merge and renames Player_SC.              *)
(*                                                                         *)
(* A string is a sequence of Unicode code points (65 = "A", 32 = " ").     *)
(* A column name is a TLA+ string.  A table is a record                    *)
(*   [cols |-> sequence of column names, rows |-> sequence of rows],       *)
(* each row a sequence of cells aligned with cols; a cell is a string, an  *)
(* integer or the missing marker NaN.                                      *)
(***************************************************************************)
EXTENDS Integers, Sequences, FiniteSets, TLC

VARIABLES
    pc,         \* position of the run
    x,          \* normaliser: the value passed to normalize_str
    flags,      \* normaliser: [lower, strip, remove_accents]
    y1,         \* normaliser: normalize_str(x)
    y2,         \* normaliser: normalize_str(normalize_str(x))
    cols1,      \* guesser: first list of column names
    cols2,      \* guesser: second list of column names
    guess,      \* best_guess_keys(...) (line 106 in the script)
    f1, f2,     \* the two input files, as last read
    use_sample, \* line 66: the inputs are paths on disk, not uploads
    normalize,  \* line 75
    merge_how,  \* line 76
    req1, req2, \* the sheet argument of the last read_any of each file
    df1, df2,   \* the tables loaded
    meta1, meta2,
    key_cols1, key_cols2,   \* lines 109-110
    df1n, df2n, \* lines 118-122
    left_on, right_on,      \* lines 120, 123 (always lists here)
    indexers,   \* pandas.merge: the (left row, right row) taken for each
                \* row of the result, 0 for no row
    merged,     \* line 127
    out,        \* the table written to the download (after line 131)
    ui          \* the message shown: "", "error", "warning", "exception",
                \* "success"

normVars == <<x, flags, y1, y2>>
guessVars == <<cols1, cols2>>
inputVars == <<f1, f2, use_sample, normalize, merge_how, req1, req2>>
loadVars == <<df1, df2, meta1, meta2>>
keyVars == <<key_cols1, key_cols2>>
mergeVars == <<df1n, df2n, left_on, right_on, indexers, merged, out>>
appVars == <<guess, inputVars, loadVars, keyVars, mergeVars, ui>>

vars == <<pc, normVars, guessVars, appVars>>

\* ------------------------------------------------------------------ bounds
MaxLen == 3         \* longest string handed to the normaliser

\* ------------------------------------------------------------- characters
\* The missing marker (float nan / None): no code point is negative, so it
\* differs from every string.
NaN == <<-1>>

\* Code points of the normaliser's inputs: A a E-acute I-dot-above,
\* combining acute, space, tab.
Alphabet == {65, 97, 201, 304, 769, 32, 9}

RECURSIVE StringsUpTo(_)
StringsUpTo(n) ==
    IF n = 0 THEN {<<>>}
    ELSE LET S == StringsUpTo(n - 1)
         IN  S \cup {Append(s, c) : s \in {t \in S : Len(t) = n - 1}, c \in Alphabet}

\* unicodedata.category(c) = 'Mn' (combining acute U+0301, dot above U+0307)
IsMn(c) == c \in {769, 775}
NotMn(c) == ~IsMn(c)

\* str.isspace: space, tab, newline, no-break space
IsSpace(c) == c \in {32, 9, 10, 160}

\* The canonical decomposition of one code point (unicodedata.normalize NFD)
Decompose(c) ==
    CASE c = 201 -> <<69, 769>>      \* E-acute -> E, combining acute
      [] c = 233 -> <<101, 769>>     \* e-acute -> e, combining acute
      [] c = 304 -> <<73, 775>>      \* I-dot-above -> I, combining dot above
      [] OTHER   -> <<c>>

\* str.lower of one code point (I-dot-above lowers to i + combining dot)
LowerChar(c) ==
    CASE c \in 65..90   -> <<c + 32>>      \* A-Z
      [] c \in 192..222 /\ c # 215 -> <<c + 32>>     \* Latin-1 capitals
      [] c = 304 -> <<105, 775>>
      [] OTHER   -> <<c>>

RECURSIVE FlatMap(_, _)
FlatMap(f(_), s) == IF s = <<>> THEN <<>> ELSE f(Head(s)) \o FlatMap(f, Tail(s))

\* NFD: every code point decomposed.  The marks of the alphabet all have
\* combining class 230, so canonical reordering never moves one.
NFD(s) == FlatMap(Decompose, s)

lower(s) == FlatMap(LowerChar, s)

RECURSIVE lstrip(_)
lstrip(s) == IF s # <<>> /\ IsSpace(Head(s)) THEN lstrip(Tail(s)) ELSE s

RECURSIVE rstrip(_)
rstrip(s) ==
    IF s # <<>> /\ IsSpace(s[Len(s)]) THEN rstrip(SubSeq(s, 1, Len(s) - 1)) ELSE s

strip(s) == rstrip(lstrip(s))

\* Length of the leading run of non-whitespace
RECURSIVE WordLen(_)
WordLen(s) == IF s = <<>> \/ IsSpace(Head(s)) THEN 0 ELSE 1 + WordLen(Tail(s))

\* str.split(): the maximal runs of non-whitespace, in order
RECURSIVE split(_)
split(s) ==
    IF s = <<>> THEN <<>>
    ELSE IF IsSpace(Head(s)) THEN split(Tail(s))
    ELSE LET n == WordLen(s)
         IN  <<SubSeq(s, 1, n)>> \o split(SubSeq(s, n + 1, Len(s)))

\* sep.join(words)
RECURSIVE join(_, _)
join(sep, words) ==
    IF words = <<>> THEN <<>>
    ELSE IF Len(words) = 1 THEN Head(words)
    ELSE Head(words) \o sep \o join(sep, Tail(words))

\* A plausible slip: the marks are filtered before the decomposition.
strip_accents_filter_first(s) == NFD(SelectSeq(s, NotMn))

\* line 31: ''.join(c for c in NFD(s) if category(c) != 'Mn')
strip_accents(s) == SelectSeq(NFD(s), NotMn)

\* normalize_str(s, lower=, strip=, remove_accents=)
normalize_str(s, f) ==
    IF s = NaN THEN s
    ELSE LET s1 == IF f.remove_accents THEN strip_accents(s) ELSE s
             s2 == IF f.lower THEN lower(s1) ELSE s1
             s3 == IF f.strip THEN strip(s2) ELSE s2
         IN  join(<<32>>, split(s3))

DefaultFlags == [lower |-> TRUE, strip |-> TRUE, remove_accents |-> TRUE]

AllFlags == [lower : BOOLEAN, strip : BOOLEAN, remove_accents : BOOLEAN]

\* ------------------------------------------------------------ key guesser
\* A plausible slip: the generic names are scanned before the short names.
AliasesGenericFirst ==
    <<"Player", "Jogador", "Name", "Nome",
      "Short Name", "ShortName", "Player Short Name", "Nome Curto", "Abbrev",
      "Abbreviated", "NameShort">>

\* lines 50-54: candidates + generic
Aliases ==
    <<"Short Name", "ShortName", "Player Short Name", "Nome Curto", "Abbrev",
      "Abbreviated", "NameShort",
      "Player", "Jogador", "Name", "Nome">>

Elems(s) == {s[i] : i \in 1..Len(s)}

IsIn(c, s) == \E i \in 1..Len(s) : s[i] = c

\* The first element of s that satisfies the membership test, as a list of
\* length 0 or 1
RECURSIVE FirstIn(_, _, _)
FirstIn(s, a, b) ==
    IF s = <<>> THEN <<>>
    ELSE IF IsIn(Head(s), a) /\ IsIn(Head(s), b) THEN <<Head(s)>>
    ELSE FirstIn(Tail(s), a, b)

best_guess_keys(c1, c2) ==
    LET byAlias == FirstIn(Aliases, c1, c2)        \* lines 54-56
        inter   == SelectSeq(c1, LAMBDA c : IsIn(c, c2))   \* line 58
    IN  IF byAlias # <<>> THEN byAlias
        ELSE IF inter # <<>> THEN <<Head(inter)>> ELSE <<>>

\* ------------------------------------------------------------------ cells
\* A cell is a string, NaN, or an integer n, written <<-2, n>>.
IntCell(n) == <<-2, n>>
IsNaN(v) == v = NaN
IsInt(v) == Len(v) = 2 /\ v[1] = -2

\* str(n) for n >= 0: the decimal digits
RECURSIVE Digits(_)
Digits(n) == IF n < 10 THEN <<48 + n>> ELSE Digits(n \div 10) \o <<48 + (n % 10)>>

\* ----------------------------------------------------------------- tables
NoTable == [cols |-> <<>>, rows |-> <<>>]

NRows(t) == Len(t.rows)

\* Position of the column named c
ColIndex(t, c) == CHOOSE i \in 1..Len(t.cols) : t.cols[i] = c

\* The cells of column c, top to bottom
Column(t, c) == [i \in 1..NRows(t) |-> t.rows[i][ColIndex(t, c)]]

\* The dtype pandas gives a column read from a file
Dtype(cells) ==
    IF cells = <<>> THEN "object"
    ELSE IF \A i \in 1..Len(cells) : IsInt(cells[i]) THEN "int64"
    ELSE IF \A i \in 1..Len(cells) : IsInt(cells[i]) \/ IsNaN(cells[i]) THEN "float64"
    ELSE "object"

\* Series.astype(str) of one cell of a column: nan becomes "nan", an integer
\* of a float64 column (one that holds NaN too) becomes "n.0"
astype_str(v, dtype) ==
    IF IsNaN(v) THEN <<110, 97, 110>>
    ELSE IF IsInt(v) THEN (IF dtype = "float64" THEN Digits(v[2]) \o <<46, 48>>
                           ELSE Digits(v[2]))
    ELSE v

\* "_&_".join(cols)
RECURSIVE JoinNames(_)
JoinNames(cols) ==
    IF Len(cols) = 1 THEN Head(cols)
    ELSE Head(cols) \o "_&_" \o JoinNames(Tail(cols))

\* line 45: the value of the synthetic key in row i
KeyValue(df, cols, i) ==
    normalize_str(
        join(<<32>>, [k \in 1..Len(cols) |->
                        astype_str(df.rows[i][ColIndex(df, cols[k])],
                                   Dtype(Column(df, cols[k])))]),
        DefaultFlags)

\* df[name] = values: a column of that name is overwritten in place,
\* otherwise the column is appended
SetColumn(df, name, values) ==
    IF IsIn(name, df.cols)
    THEN [cols |-> df.cols,
          rows |-> [i \in 1..NRows(df) |->
                      [k \in 1..Len(df.cols) |->
                         IF df.cols[k] = name THEN values[i] ELSE df.rows[i][k]]]]
    ELSE [cols |-> Append(df.cols, name),
          rows |-> [i \in 1..NRows(df) |-> Append(df.rows[i], values[i])]]

\* normalize_df_key(df, cols): the pair (df, newcol)
normalize_df_key(df, cols) ==
    LET newcol == JoinNames(cols) \o "__norm"
        values == [i \in 1..NRows(df) |-> KeyValue(df, cols, i)]
    IN  [df |-> SetColumn(df, newcol, values), newcol |-> newcol]

\* ----------------------------------------------------------- pandas.merge
Idx(n) == [i \in 1..n |-> i]

RECURSIVE ConcatMap(_, _, _)
ConcatMap(f(_), i, n) == IF i > n THEN <<>> ELSE f(i) \o ConcatMap(f, i + 1, n)

NoDuplicates(s) == \A i, j \in 1..Len(s) : s[i] = s[j] => i = j

\* The values of the key columns `on` in row i
RowKey(t, on, i) == [k \in 1..Len(on) |-> t.rows[i][ColIndex(t, on[k])]]

\* Lexicographic order of two sequences of integers
RECURSIVE SeqLess(_, _)
SeqLess(a, b) ==
    IF b = <<>> THEN FALSE
    ELSE IF a = <<>> THEN TRUE
    ELSE IF Head(a) # Head(b) THEN Head(a) < Head(b)
    ELSE SeqLess(Tail(a), Tail(b))

\* Sort order of key values: by code point, missing values last
CellLess(a, b) == a # b /\ (IsNaN(b) \/ (~IsNaN(a) /\ SeqLess(a, b)))

RECURSIVE KeyLess(_, _)
KeyLess(k1, k2) ==
    IF k1 = <<>> \/ k2 = <<>> THEN FALSE
    ELSE IF Head(k1) # Head(k2) THEN CellLess(Head(k1), Head(k2))
    ELSE KeyLess(Tail(k1), Tail(k2))

RECURSIVE SortedKeys(_)
SortedKeys(S) ==
    IF S = {} THEN <<>>
    ELSE LET m == CHOOSE k \in S : \A o \in S \ {k} : KeyLess(k, o)
         IN  <<m>> \o SortedKeys(S \ {m})

\* _maybe_coerce_merge_keys: a key column of strings cannot be merged with a
\* numeric one (ValueError), unless exactly one of the two is empty
KeysCompatible(lcells, rcells) ==
    LET ld == Dtype(lcells)
        rd == Dtype(rcells)
        numeric(d) == d \in {"int64", "float64"}
        stringy(cells) == \A i \in 1..Len(cells) : ~IsInt(cells[i])
    IN  \/ (lcells = <<>>) # (rcells = <<>>)
        \/ ld = rd
        \/ numeric(ld) /\ numeric(rd)
        \/ ld = "object" /\ numeric(rd) /\ ~stringy(lcells)
        \/ numeric(ld) /\ rd = "object" /\ ~stringy(rcells)

\* The rows of the right table whose key equals that of left row i, and the
\* rows of the left table whose key equals that of right row j.  A missing
\* key value equals a missing one.
RMatches(left, right, lon, ron, i) ==
    SelectSeq(Idx(NRows(right)),
              LAMBDA j : RowKey(right, ron, j) = RowKey(left, lon, i))

LMatches(left, right, lon, ron, j) ==
    SelectSeq(Idx(NRows(left)),
              LAMBDA i : RowKey(left, lon, i) = RowKey(right, ron, j))

\* inner_join: left row i with each of its matches
InnerRow(left, right, lon, ron, i) ==
    LET R == RMatches(left, right, lon, ron, i)
    IN  [m \in 1..Len(R) |-> <<i, R[m]>>]

\* A plausible slip: a left row without a match is dropped.
LeftRowDropsUnmatched(left, right, lon, ron, i) ==
    InnerRow(left, right, lon, ron, i)

\* left_outer_join: left row i with each of its matches, or alone
LeftRow(left, right, lon, ron, i) ==
    IF RMatches(left, right, lon, ron, i) = <<>> THEN <<<<i, 0>>>>
    ELSE InnerRow(left, right, lon, ron, i)

\* left_outer_join with the sides swapped
RightRow(left, right, lon, ron, j) ==
    LET L == LMatches(left, right, lon, ron, j)
    IN  IF L = <<>> THEN <<<<0, j>>>> ELSE [m \in 1..Len(L) |-> <<L[m], j>>]

\* A plausible slip: the rows found in the right table only are dropped.
OuterGroupLeftOnly(left, right, lon, ron, key) ==
    LET L == SelectSeq(Idx(NRows(left)), LAMBDA i : RowKey(left, lon, i) = key)
    IN  ConcatMap(LAMBDA m : LeftRow(left, right, lon, ron, L[m]), 1, Len(L))

\* full_outer_join: the rows of the result for one key value
OuterGroup(left, right, lon, ron, key) ==
    LET L == SelectSeq(Idx(NRows(left)), LAMBDA i : RowKey(left, lon, i) = key)
        R == SelectSeq(Idx(NRows(right)), LAMBDA j : RowKey(right, ron, j) = key)
    IN  IF L = <<>> THEN [m \in 1..Len(R) |-> <<0, R[m]>>]
        ELSE ConcatMap(LAMBDA m : LeftRow(left, right, lon, ron, L[m]), 1, Len(L))

\* get_join_indexers: for every row of the result, the row of the left table
\* and the row of the right table it is made of (0: none).  left and inner
\* keep the order of the left rows, right that of the right rows, outer
\* sorts the keys.
JoinIndexers(left, right, how, lon, ron) ==
    LET nl == NRows(left)
        nr == NRows(right)
        sorted == SortedKeys({RowKey(left, lon, i) : i \in 1..nl}
                               \cup {RowKey(right, ron, j) : j \in 1..nr})
    IN  CASE how = "left"  ->
               ConcatMap(LAMBDA i : LeftRow(left, right, lon, ron, i), 1, nl)
          [] how = "right" ->
               ConcatMap(LAMBDA j : RightRow(left, right, lon, ron, j), 1, nr)
          [] how = "inner" ->
               ConcatMap(LAMBDA i : InnerRow(left, right, lon, ron, i), 1, nl)
          [] how = "outer" ->
               ConcatMap(LAMBDA n : OuterGroup(left, right, lon, ron, sorted[n]),
                         1, Len(sorted))

\* The key columns named alike on both sides: the result has one column for
\* them.  pandas drops the right one, or the left one if the left table has
\* no rows.
SharedKeys(lon, ron) == {lon[k] : k \in {n \in 1..Len(lon) : lon[n] = ron[n]}}

LeftKept(left, lon, ron) ==
    IF NRows(left) > 0 THEN left.cols
    ELSE SelectSeq(left.cols, LAMBDA c : c \notin SharedKeys(lon, ron))

RightKept(left, right, lon, ron) ==
    IF NRows(left) > 0
    THEN SelectSeq(right.cols, LAMBDA c : c \notin SharedKeys(lon, ron))
    ELSE right.cols

\* _items_overlap_with_suffix: a name found on both sides gets the side's
\* suffix
Suffixed(names, overlap, suffix) ==
    [k \in 1..Len(names) |->
        IF names[k] \in overlap THEN names[k] \o suffix ELSE names[k]]

MergedLeftCols(left, right, lon, ron) ==
    Suffixed(LeftKept(left, lon, ron),
             Elems(LeftKept(left, lon, ron)) \cap Elems(RightKept(left, right, lon, ron)),
             "_SC")

MergedRightCols(left, right, lon, ron) ==
    Suffixed(RightKept(left, right, lon, ron),
             Elems(LeftKept(left, lon, ron)) \cap Elems(RightKept(left, right, lon, ron)),
             "_SRC2")

\* MergeError: a suffix made two columns of one side share a name.  Names
\* shared across the two sides are not looked at.
SuffixClash(left, right, lon, ron) ==
    \/ ~NoDuplicates(MergedLeftCols(left, right, lon, ron))
    \/ ~NoDuplicates(MergedRightCols(left, right, lon, ron))

\* One row of the result, from left row p[1] and right row p[2].  A shared
\* key column holds the key of whichever side has a row.
MergedRow(left, right, lon, ron, p) ==
    LET lk == LeftKept(left, lon, ron)
        rk == RightKept(left, right, lon, ron)
        shared == SharedKeys(lon, ron)
        lcell(c) == IF p[1] # 0 THEN left.rows[p[1]][ColIndex(left, c)]
                    ELSE IF c \in shared THEN right.rows[p[2]][ColIndex(right, c)]
                    ELSE NaN
        rcell(c) == IF p[2] # 0 THEN right.rows[p[2]][ColIndex(right, c)] ELSE NaN
    IN  [k \in 1..Len(lk) |-> lcell(lk[k])] \o [k \in 1..Len(rk) |-> rcell(rk[k])]

\* pd.merge(left, right, how, left_on, right_on, suffixes=("_SC", "_SRC2")):
\* ok is FALSE when pandas raises
merge(left, right, how, lon, ron) ==
    LET ok == /\ \A k \in 1..Len(lon) :
                    KeysCompatible(Column(left, lon[k]), Column(right, ron[k]))
              /\ ~SuffixClash(left, right, lon, ron)
        ix == JoinIndexers(left, right, how, lon, ron)
    IN  IF ~ok THEN [ok |-> FALSE, indexers |-> <<>>, table |-> NoTable]
        ELSE [ok |-> TRUE,
              indexers |-> ix,
              table |-> [cols |-> MergedLeftCols(left, right, lon, ron)
                                    \o MergedRightCols(left, right, lon, ron),
                         rows |-> [n \in 1..Len(ix) |->
                                     MergedRow(left, right, lon, ron, ix[n])]]]

\* A plausible slip: the rename is not guarded by the absence of Player.
rename_player_unguarded(t) ==
    [cols |-> [k \in 1..Len(t.cols) |->
                 IF t.cols[k] = "Player_SC" THEN "Player" ELSE t.cols[k]],
     rows |-> t.rows]

\* lines 130-131: Player_SC is renamed to Player unless Player exists
rename_player(t) ==
    IF IsIn("Player_SC", t.cols) /\ ~IsIn("Player", t.cols)
    THEN [cols |-> [k \in 1..Len(t.cols) |->
                      IF t.cols[k] = "Player_SC" THEN "Player" ELSE t.cols[k]],
          rows |-> t.rows]
    ELSE t

\* ---------------------------------------------------------------- read_any
NoSheet == ""       \* sheet=None

NoMeta == [type |-> "", sheets |-> <<>>, selected_sheet |-> NoSheet]

\* line 15: name.lower().endswith(".csv")
IsCsvName(file) == file.ext \in {"csv", "CSV", "Csv"}

\* line 22: selected = sheet if sheet in sheets else sheets[0]
SelectedSheet(sheet, sheets) == IF IsIn(sheet, sheets) THEN sheet ELSE sheets[1]

SheetIndex(sheets, name) == CHOOSE i \in 1..Len(sheets) : sheets[i] = name

\* read_any(file, sheet): ok is FALSE when pandas raises (a file that is
\* missing, unreadable or not of the format its name announces); message is
\* then str(e) of the exception raised, which may be the empty string
read_any(file, sheet) ==
    IF IsCsvName(file)
    THEN IF file.kind = "csv"
         THEN [ok |-> TRUE, df |-> file.tables[1],
               meta |-> [type |-> "csv", sheets |-> <<>>, selected_sheet |-> NoSheet],
               message |-> ""]
         ELSE [ok |-> FALSE, df |-> NoTable, meta |-> NoMeta,
               message |-> file.message]
    ELSE IF file.kind = "workbook"
         THEN LET selected == SelectedSheet(sheet, file.sheets)
              IN  [ok |-> TRUE,
                   df |-> file.tables[SheetIndex(file.sheets, selected)],
                   meta |-> [type |-> "excel", sheets |-> file.sheets,
                             selected_sheet |-> selected],
                   message |-> ""]
         ELSE [ok |-> FALSE, df |-> NoTable, meta |-> NoMeta,
               message |-> file.message]

\* --------------------------------------------------------- the input files
\* "Ana" "ana" "Bo" "X" "Y" "p" "orig" "A" "B" "C"
T_Players ==
    [cols |-> <<"Player", "Team">>,
     rows |-> << <<<<65, 110, 97>>, <<88>>>>, <<<<66, 111>>, <<89>>>> >>]

T_PlayerSC ==
    [cols |-> <<"Player", "Player_SC">>,
     rows |-> << <<<<97, 110, 97>>, <<112>>>> >>]

T_Norm ==
    [cols |-> <<"Player", "Player__norm">>,
     rows |-> << <<<<65, 110, 97>>, <<111, 114, 105, 103>>>> >>]

T_OnlySC ==
    [cols |-> <<"Player_SC", "Goals">>,
     rows |-> << <<<<65, 110, 97>>, IntCell(1)>> >>]

T_Goals ==
    [cols |-> <<"Short Name", "Goals">>,
     rows |-> << <<<<65>>, IntCell(1)>>, <<<<66>>, IntCell(2)>> >>]

T_Assists ==
    [cols |-> <<"Short Name", "Assists">>,
     rows |-> << <<<<65>>, IntCell(5)>>, <<<<67>>, IntCell(9)>> >>]

\* A file record: message is the text of the exception that reading the
\* file raises when it cannot be read as what its name announces.
CsvFile(name, ext, t) ==
    [name |-> name, ext |-> ext, kind |-> "csv", sheets |-> <<>>, tables |-> <<t>>,
     message |-> "Excel file format cannot be determined"]

Workbook(name, sheets, tables) ==
    [name |-> name, ext |-> "xlsx", kind |-> "workbook", sheets |-> sheets,
     tables |-> tables, message |-> "Error tokenizing data"]

\* A file no reader accepts; msg is str(e) of what the reader raises, empty
\* for an exception raised without arguments
Unreadable(name, msg) ==
    [name |-> name, ext |-> "xlsx", kind |-> "corrupt", sheets |-> <<>>,
     tables |-> <<>>, message |-> msg]

\* lines 70-71: the two sample paths
Sample1 == "Eliteserien 2025 - SC"
Sample2 == "Eliteserien 2025"

\* What a path on disk, or an upload, can hold.  The first sample file
\* exists in two versions: with and without its second sheet.  An unreadable
\* file (missing at its path, or corrupt) raises with a message or with none.
Files ==
    { Workbook(Sample1, <<"SC", "Alt">>, <<T_Players, T_OnlySC>>),
      Workbook(Sample1, <<"SC">>, <<T_Players>>),
      Workbook(Sample2, <<"Data", "Extra">>, <<T_PlayerSC, T_Norm>>),
      CsvFile("goals", "csv", T_Goals),
      CsvFile("assists", "CSV", T_Assists),
      Unreadable("broken", "File is not a zip file"),
      Unreadable("broken", ""),
      Unreadable(Sample1, "No such file or directory"),
      Unreadable(Sample1, ""),
      Unreadable(Sample2, "File is not a zip file"),
      Unreadable(Sample2, "") }

\* The file a later read of the same input finds: an upload is held in
\* memory, a sample path is opened again
Reread(file, sample) == IF sample THEN {g \in Files : g.name = file.name} ELSE {file}

MergeHows == {"inner", "left", "right", "outer"}

\* ------------------------------------------------------------- the script
MaxKeys == 2        \* most key columns selected in one table

RECURSIVE SeqsUpTo(_, _)
SeqsUpTo(D, n) ==
    IF n = 0 THEN {<<>>}
    ELSE LET S == SeqsUpTo(D, n - 1)
         IN  S \cup {Append(s, d) : s \in {t \in S : Len(t) = n - 1}, d \in D}

\* st.multiselect: any columns of the table, each once, in the order chosen
Selections(cols) == {s \in SeqsUpTo(Elems(cols), MaxKeys) : NoDuplicates(s)}

\* A plausible slip: the two selections are not compared in length.
KeysOKNonEmpty(k1, k2) == k1 # <<>> /\ k2 # <<>>

\* line 112, negated
KeysOK(k1, k2) == k1 # <<>> /\ k2 # <<>> /\ Len(k1) = Len(k2)

GuessIdle == cols1 = <<>> /\ cols2 = <<>>

NormIdle == x = NaN /\ flags = DefaultFlags /\ y1 = NaN /\ y2 = NaN

NothingLoaded ==
    /\ df1 = NoTable /\ df2 = NoTable /\ meta1 = NoMeta /\ meta2 = NoMeta

NothingSelected == guess = <<>> /\ key_cols1 = <<>> /\ key_cols2 = <<>>

NothingMerged ==
    /\ df1n = NoTable /\ df2n = NoTable /\ left_on = <<>> /\ right_on = <<>>
    /\ indexers = <<>> /\ merged = NoTable /\ out = NoTable

AppIdle ==
    /\ f1 = Unreadable("", "") /\ f2 = Unreadable("", "")
    /\ use_sample = FALSE /\ normalize = TRUE /\ merge_how = "outer"
    /\ req1 = NoSheet /\ req2 = NoSheet
    /\ NothingLoaded /\ NothingSelected /\ NothingMerged
    /\ ui = ""

\* lines 62-76: the sidebar
Init ==
    /\ pc = "start"
    /\ NormIdle /\ GuessIdle
    /\ use_sample \in BOOLEAN
    /\ f1 \in IF use_sample THEN {g \in Files : g.name = Sample1} ELSE Files
    /\ f2 \in IF use_sample THEN {g \in Files : g.name = Sample2} ELSE Files
    /\ normalize \in BOOLEAN
    /\ merge_how \in MergeHows
    /\ req1 = NoSheet /\ req2 = NoSheet
    /\ NothingLoaded /\ NothingSelected /\ NothingMerged
    /\ ui = ""

\* lines 78-89, both reads succeed
Load ==
    /\ pc = "start"
    /\ read_any(f1, NoSheet).ok /\ read_any(f2, NoSheet).ok
    /\ df1' = read_any(f1, NoSheet).df
    /\ meta1' = read_any(f1, NoSheet).meta
    /\ df2' = read_any(f2, NoSheet).df
    /\ meta2' = read_any(f2, NoSheet).meta
    /\ pc' = "loaded"
    /\ UNCHANGED <<normVars, guessVars, guess, inputVars, keyVars, mergeVars, ui>>

\* lines 82-85: one of the two reads of the try block raises
LoadRaises == ~read_any(f1, NoSheet).ok \/ ~read_any(f2, NoSheet).ok

\* line 85: load_error = str(e) of the first read that raises; the second
\* file is not read when the first read raises
load_error ==
    IF ~read_any(f1, NoSheet).ok THEN read_any(f1, NoSheet).message
    ELSE IF ~read_any(f2, NoSheet).ok THEN read_any(f2, NoSheet).message
    ELSE ""

\* lines 78-89, a read raises with a message: load_error is truthy, st.error,
\* st.stop.  The first table stays assigned when it is the second read that
\* raises.
LoadFails ==
    /\ pc = "start"
    /\ LoadRaises /\ load_error # ""
    /\ df1' = read_any(f1, NoSheet).df
    /\ meta1' = read_any(f1, NoSheet).meta
    /\ UNCHANGED <<df2, meta2>>
    /\ ui' = "error"
    /\ pc' = "stopped"
    /\ UNCHANGED <<normVars, guessVars, guess, inputVars, keyVars, mergeVars>>

\* lines 95-98 for one file: the sheets offered are those of the first read;
\* a sheet other than the one shown makes the file be read again
PickerChoices(meta) ==
    IF meta.type = "excel" THEN Elems(meta.sheets) ELSE {NoSheet}

Rereads(meta, sel) == meta.type = "excel" /\ sel # meta.selected_sheet

\* lines 78-100, a read raises with an empty message: load_error = "" is
\* falsy, no error is shown and the script goes on with a meta that is None.
\* When the first read raised, meta1["type"] raises TypeError at line 95.
\* When the second read raised, the sheet picker of the first file runs
\* (lines 95-98, its re-read may raise as well) and meta2["type"] raises
\* TypeError at line 100.  The run ends with the exception shown.
LoadFailsSilently ==
    /\ pc = "start"
    /\ LoadRaises /\ load_error = ""
    /\ \/ /\ ~read_any(f1, NoSheet).ok
          /\ UNCHANGED <<f1, req1, df1, meta1>>
       \/ /\ read_any(f1, NoSheet).ok
          /\ \E sel1 \in PickerChoices(read_any(f1, NoSheet).meta) :
             \E g1 \in Reread(f1, use_sample) :
                IF Rereads(read_any(f1, NoSheet).meta, sel1)
                THEN /\ f1' = g1 /\ req1' = sel1
                     /\ IF read_any(g1, sel1).ok
                        THEN /\ df1' = read_any(g1, sel1).df
                             /\ meta1' = read_any(g1, sel1).meta
                        ELSE /\ df1' = read_any(f1, NoSheet).df
                             /\ meta1' = read_any(f1, NoSheet).meta
                ELSE /\ UNCHANGED <<f1, req1>>
                     /\ df1' = read_any(f1, NoSheet).df
                     /\ meta1' = read_any(f1, NoSheet).meta
    /\ UNCHANGED <<f2, req2, df2, meta2>>
    /\ ui' = "exception"
    /\ pc' = "crashed"
    /\ UNCHANGED <<normVars, guessVars, guess, use_sample, normalize, merge_how,
                   keyVars, mergeVars>>

\* lines 91-103, no read raises
SheetPickers ==
    /\ pc = "loaded"
    /\ \E sel1 \in PickerChoices(meta1), sel2 \in PickerChoices(meta2) :
       \E g1 \in Reread(f1, use_sample), g2 \in Reread(f2, use_sample) :
          /\ Rereads(meta1, sel1) => read_any(g1, sel1).ok
          /\ Rereads(meta2, sel2) => read_any(g2, sel2).ok
          /\ IF Rereads(meta1, sel1)
             THEN /\ f1' = g1 /\ req1' = sel1
                  /\ df1' = read_any(g1, sel1).df
                  /\ meta1' = read_any(g1, sel1).meta
             ELSE UNCHANGED <<f1, req1, df1, meta1>>
          /\ IF Rereads(meta2, sel2)
             THEN /\ f2' = g2 /\ req2' = sel2
                  /\ df2' = read_any(g2, sel2).df
                  /\ meta2' = read_any(g2, sel2).meta
             ELSE UNCHANGED <<f2, req2, df2, meta2>>
    /\ pc' = "picked"
    /\ UNCHANGED <<normVars, guessVars, guess, use_sample, normalize, merge_how,
                   keyVars, mergeVars, ui>>

\* lines 91-103, a second read raises outside the try block: the run ends
\* with the exception shown
SheetPickerRaises ==
    /\ pc = "loaded"
    /\ \E sel1 \in PickerChoices(meta1), sel2 \in PickerChoices(meta2) :
       \E g1 \in Reread(f1, use_sample), g2 \in Reread(f2, use_sample) :
          \/ /\ Rereads(meta1, sel1) /\ ~read_any(g1, sel1).ok
             /\ f1' = g1 /\ req1' = sel1
             /\ UNCHANGED <<f2, req2, df1, meta1, df2, meta2>>
          \/ /\ Rereads(meta1, sel1) => read_any(g1, sel1).ok
             /\ Rereads(meta2, sel2) /\ ~read_any(g2, sel2).ok
             /\ IF Rereads(meta1, sel1)
                THEN /\ f1' = g1 /\ req1' = sel1
                     /\ df1' = read_any(g1, sel1).df
                     /\ meta1' = read_any(g1, sel1).meta
                ELSE UNCHANGED <<f1, req1, df1, meta1>>
             /\ f2' = g2 /\ req2' = sel2
             /\ UNCHANGED <<df2, meta2>>
    /\ ui' = "exception"
    /\ pc' = "crashed"
    /\ UNCHANGED <<normVars, guessVars, guess, use_sample, normalize, merge_how,
                   keyVars, mergeVars>>

\* lines 105-110
SelectKeys ==
    /\ pc = "picked"
    /\ guess' = best_guess_keys(df1.cols, df2.cols)
    /\ key_cols1' \in Selections(df1.cols)
    /\ key_cols2' \in Selections(df2.cols)
    /\ pc' = "keys_selected"
    /\ UNCHANGED <<normVars, guessVars, inputVars, loadVars, mergeVars, ui>>

\* lines 112-114: st.warning, st.stop
KeyGuardStops ==
    /\ pc = "keys_selected"
    /\ ~KeysOK(key_cols1, key_cols2)
    /\ ui' = "warning"
    /\ pc' = "stopped"
    /\ UNCHANGED <<normVars, guessVars, guess, inputVars, loadVars, keyVars, mergeVars>>

\* lines 112-120
NormalizeKeys ==
    /\ pc = "keys_selected"
    /\ KeysOK(key_cols1, key_cols2)
    /\ normalize
    /\ df1n' = normalize_df_key(df1, key_cols1).df
    /\ df2n' = normalize_df_key(df2, key_cols2).df
    /\ left_on' = <<normalize_df_key(df1, key_cols1).newcol>>
    /\ right_on' = <<normalize_df_key(df2, key_cols2).newcol>>
    /\ pc' = "keys_ready"
    /\ UNCHANGED <<normVars, guessVars, guess, inputVars, loadVars, keyVars,
                   indexers, merged, out, ui>>

\* lines 112-116, 121-123
UseRawKeys ==
    /\ pc = "keys_selected"
    /\ KeysOK(key_cols1, key_cols2)
    /\ ~normalize
    /\ df1n' = df1
    /\ df2n' = df2
    /\ left_on' = key_cols1
    /\ right_on' = key_cols2
    /\ pc' = "keys_ready"
    /\ UNCHANGED <<normVars, guessVars, guess, inputVars, loadVars, keyVars,
                   indexers, merged, out, ui>>

\* lines 125-127
Merge ==
    /\ pc = "keys_ready"
    /\ merge(df1n, df2n, merge_how, left_on, right_on).ok
    /\ merged' = merge(df1n, df2n, merge_how, left_on, right_on).table
    /\ indexers' = merge(df1n, df2n, merge_how, left_on, right_on).indexers
    /\ pc' = "merged"
    /\ UNCHANGED <<normVars, guessVars, guess, inputVars, loadVars, keyVars,
                   df1n, df2n, left_on, right_on, out, ui>>

\* lines 125-127, pandas raises: the run ends with the exception shown
MergeRaises ==
    /\ pc = "keys_ready"
    /\ ~merge(df1n, df2n, merge_how, left_on, right_on).ok
    /\ ui' = "exception"
    /\ pc' = "crashed"
    /\ UNCHANGED <<normVars, guessVars, guess, inputVars, loadVars, keyVars, mergeVars>>

\* lines 129-143: the rename, the success line, the preview, the download
PostProcess ==
    /\ pc = "merged"
    /\ out' = rename_player(merged)
    /\ ui' = "success"
    /\ pc' = "done"
    /\ UNCHANGED <<normVars, guessVars, guess, inputVars, loadVars, keyVars,
                   df1n, df2n, left_on, right_on, indexers, merged>>

Next ==
    \/ Load
    \/ LoadFails
    \/ LoadFailsSilently
    \/ SheetPickers
    \/ SheetPickerRaises
    \/ SelectKeys
    \/ KeyGuardStops
    \/ NormalizeKeys
    \/ UseRawKeys
    \/ Merge
    \/ MergeRaises
    \/ PostProcess

Spec == Init /\ [][Next]_vars

\* ------------------------------------------------- the normaliser, applied
NormInit ==
    /\ pc = "norm_in"
    /\ GuessIdle
    /\ AppIdle
    /\ x \in StringsUpTo(MaxLen) \cup {NaN}
    /\ flags \in AllFlags
    /\ y1 = NaN
    /\ y2 = NaN

Normalize ==
    /\ pc = "norm_in"
    /\ y1' = normalize_str(x, flags)
    /\ pc' = "norm_once"
    /\ UNCHANGED <<x, flags, y2, guessVars, appVars>>

Renormalize ==
    /\ pc = "norm_once"
    /\ y2' = normalize_str(y1, flags)
    /\ pc' = "norm_twice"
    /\ UNCHANGED <<x, flags, y1, guessVars, appVars>>

NormNext == Normalize \/ Renormalize

SpecNorm == NormInit /\ [][NormNext]_vars

\* --------------------------------------------------- the guesser, applied
MaxCols == 3        \* most columns in a list handed to the guesser

ColumnNames == {"Short Name", "Player", "Name", "Age", "Club"}

ColumnLists == {s \in SeqsUpTo(ColumnNames, MaxCols) : NoDuplicates(s)}

GuessInit ==
    /\ pc = "guess_in"
    /\ NormIdle
    /\ AppIdle
    /\ cols1 \in ColumnLists
    /\ cols2 \in ColumnLists

Guess ==
    /\ pc = "guess_in"
    /\ guess' = best_guess_keys(cols1, cols2)
    /\ pc' = "guess_done"
    /\ UNCHANGED <<normVars, guessVars, inputVars, loadVars, keyVars, mergeVars, ui>>

GuessNext == Guess

SpecGuess == GuessInit /\ [][GuessNext]_vars

\* ------------------------------------- the merge, on generated tables
MaxRows == 2        \* most rows in a generated table

\* The data column of a generated table, by row: Goals 1 2 3 ..., Assists
\* 5 9 7 8 6 ...
LeftData == <<1, 2, 3, 4, 0>>
RightData == <<5, 9, 7, 8, 6>>

\* The tables the merge is run on: key columns, a data column after them,
\* and the key values a row can have.
\* "A" "B" "a" "C" / "a b" "c" "b c" / " a"
Schemas ==
    { [lcols |-> <<"Short Name", "Goals">>, rcols |-> <<"Short Name", "Assists">>,
       lkeys |-> <<"Short Name">>, rkeys |-> <<"Short Name">>,
       ldom |-> {<<<<65>>>>, <<<<66>>>>, <<<<97>>>>, <<NaN>>},
       rdom |-> {<<<<65>>>>, <<<<67>>>>, <<<<97>>>>, <<NaN>>}],
      [lcols |-> <<"First", "Last", "Goals">>, rcols |-> <<"First", "Last", "Assists">>,
       lkeys |-> <<"First", "Last">>, rkeys |-> <<"First", "Last">>,
       ldom |-> {<<<<97, 32, 98>>, <<99>>>>, <<<<97>>, <<98, 32, 99>>>>, <<<<97>>, <<99>>>>},
       rdom |-> {<<<<97, 32, 98>>, <<99>>>>, <<<<97>>, <<98, 32, 99>>>>, <<<<97>>, <<99>>>>}],
      [lcols |-> <<"Player", "Goals">>, rcols |-> <<"Name", "Assists">>,
       lkeys |-> <<"Player">>, rkeys |-> <<"Name">>,
       ldom |-> {<<<<65>>>>, <<<<32, 97>>>>, <<NaN>>},
       rdom |-> {<<<<65>>>>, <<<<32, 97>>>>, <<NaN>>}] }

MakeTable(cols, keyrows, data) ==
    [cols |-> cols,
     rows |-> [i \in 1..Len(keyrows) |-> Append(keyrows[i], IntCell(data[i]))]]

\* The state after lines 62-110, with two uploaded delimited-text files
MergeInit ==
    /\ pc = "keys_selected"
    /\ NormIdle /\ GuessIdle
    /\ \E sc \in Schemas :
       \E kl \in SeqsUpTo(sc.ldom, MaxRows), kr \in SeqsUpTo(sc.rdom, MaxRows) :
          /\ df1 = MakeTable(sc.lcols, kl, LeftData)
          /\ df2 = MakeTable(sc.rcols, kr, RightData)
          /\ key_cols1 = sc.lkeys
          /\ key_cols2 = sc.rkeys
    /\ f1 = CsvFile("base1", "csv", df1)
    /\ f2 = CsvFile("base2", "csv", df2)
    /\ meta1 = read_any(f1, NoSheet).meta
    /\ meta2 = read_any(f2, NoSheet).meta
    /\ guess = best_guess_keys(df1.cols, df2.cols)
    /\ use_sample = FALSE
    /\ normalize \in BOOLEAN
    /\ merge_how \in MergeHows
    /\ req1 = NoSheet /\ req2 = NoSheet
    /\ NothingMerged
    /\ ui = ""

MergeNext ==
    \/ NormalizeKeys
    \/ UseRawKeys
    \/ Merge
    \/ MergeRaises
    \/ PostProcess

SpecMerge == MergeInit /\ [][MergeNext]_vars

\* ================================================================= claims
Merged == pc \in {"merged", "done"}

\* The cell of row n of the merged table under the column named c
MergedCell(n, c) == merged.rows[n][ColIndex(merged, c)]

\* The per-side value a merged row must carry for column c of table t:
\* the value of the row taken from t, or null when no row was taken
Carried(t, row, c) == IF row = 0 THEN NaN ELSE t.rows[row][ColIndex(t, c)]

\* The name under which column c of one table appears in the merged table
\* when the tables are joined on their synthetic keys
NameInMerged(c, other, suffix) == IF IsIn(c, other.cols) THEN c \o suffix ELSE c

Pairs == Elems(indexers)

\* C1: in an outer join with normalization, row i of table 1 and row j of
\* table 2 are paired exactly when their normalized keys are equal, every
\* row of either table is in the result, each result row carries the values
\* of the rows it is made of and nulls for a missing side; the tables of the
\* spec's example give exactly A(1,5), B(2,null), C(null,9); an inner join
\* keeps exactly the paired rows.
C1_OuterJoinByNormalizedKey ==
    (Merged /\ normalize /\ merge_how \in {"outer", "inner"}) =>
        LET nl == NRows(df1)
            nr == NRows(df2)
            Equal(i, j) == KeyValue(df1, key_cols1, i) = KeyValue(df2, key_cols2, j)
        IN  /\ \A i \in 1..nl, j \in 1..nr : (<<i, j>> \in Pairs) <=> Equal(i, j)
            /\ NoDuplicates(indexers)
            /\ Len(merged.rows) = Len(indexers)
            /\ \A n \in 1..Len(indexers) :
                  /\ \A c \in Elems(df1.cols) :
                        MergedCell(n, NameInMerged(c, df2, "_SC"))
                            = Carried(df1, indexers[n][1], c)
                  /\ \A c \in Elems(df2.cols) :
                        MergedCell(n, NameInMerged(c, df1, "_SRC2"))
                            = Carried(df2, indexers[n][2], c)
            /\ merge_how = "outer" =>
                  /\ \A i \in 1..nl : \E p \in Pairs : p[1] = i
                  /\ \A j \in 1..nr : \E p \in Pairs : p[2] = j
                  /\ \A p \in Pairs : p[1] # 0 \/ p[2] # 0
            /\ merge_how = "inner" => \A p \in Pairs : p[1] # 0 /\ p[2] # 0
            /\ (merge_how = "outer" /\ df1 = T_Goals /\ df2 = T_Assists) =>
                  /\ Len(merged.rows) = 3
                  /\ Elems(merged.rows) =
                        { <<<<65>>, IntCell(1), <<97>>, <<65>>, IntCell(5)>>,
                          <<<<66>>, IntCell(2), <<98>>, NaN, NaN>>,
                          <<NaN, NaN, <<99>>, <<67>>, IntCell(9)>> }

\* C1 witness: the spec's example, joined
C1_Witness ==
    /\ pc = "merged" /\ normalize /\ merge_how = "outer"
    /\ df1 = T_Goals /\ df2 = T_Assists
    /\ indexers = <<<<1, 1>>, <<2, 0>>, <<0, 2>>>>

UniqueKeys(t, on) ==
    \A i, j \in 1..NRows(t) : RowKey(t, on, i) = RowKey(t, on, j) => i = j

\* C2 as stated: a left join has as many rows as Base 1 whenever the values
\* of the selected key columns are unique within each table.
C2_LeftJoinRowCount_Selected ==
    (Merged /\ merge_how = "left"
        /\ UniqueKeys(df1, key_cols1) /\ UniqueKeys(df2, key_cols2))
    => Len(merged.rows) = NRows(df1)

\* C2 amended: a left join has as many rows as Base 1 whenever the values
\* joined on (the synthetic normalized key with normalization, the selected
\* key columns without) are unique within each table.
C2_LeftJoinRowCount_Joined ==
    (Merged /\ merge_how = "left"
        /\ UniqueKeys(df1n, left_on) /\ UniqueKeys(df2n, right_on))
    => Len(merged.rows) = NRows(df1)

\* C2 witness: a left join on unique normalized keys, one row of Base 1
\* matched and one not
C2_Witness ==
    /\ pc = "merged" /\ merge_how = "left" /\ normalize
    /\ NRows(df1) = 2 /\ NRows(df2) = 2
    /\ UniqueKeys(df1n, left_on) /\ UniqueKeys(df2n, right_on)
    /\ \E p \in Pairs : p[2] = 0
    /\ \E p \in Pairs : p[2] # 0
    /\ Len(merged.rows) = 2

\* C3: with the default flags normalizing twice gives what normalizing once
\* gives, and a missing value is returned unchanged.
C3_Idempotent ==
    (pc = "norm_twice" /\ flags = DefaultFlags) =>
        /\ y2 = y1
        /\ x = NaN => y1 = NaN

\* C3 witness: " E-acute tab" normalizes to "e", and "e" to itself
C3_Witness ==
    /\ pc = "norm_twice" /\ flags = DefaultFlags
    /\ x = <<32, 201, 9>> /\ y1 = <<101>> /\ y2 = <<101>>

IsUpper(c) == c \in 65..90 \/ (c \in 192..222 /\ c # 215) \/ c = 304

\* C4: each step is switched off by its flag: without lower no capital is
\* folded, without remove_accents the combining marks are kept, without
\* strip the whitespace at either end of the input stays in the output.
C4_FlagsIndependent ==
    (pc = "norm_once" /\ x # NaN) =>
        /\ ~flags.lower =>
              Len(SelectSeq(NFD(y1), IsUpper)) = Len(SelectSeq(NFD(x), IsUpper))
        /\ ~flags.remove_accents =>
              Len(SelectSeq(y1, IsMn)) >= Len(SelectSeq(x, IsMn))
        /\ ~flags.strip =>
              /\ (x # <<>> /\ IsSpace(x[1])) => (y1 # <<>> /\ IsSpace(y1[1]))
              /\ (x # <<>> /\ IsSpace(x[Len(x)]))
                    => (y1 # <<>> /\ IsSpace(y1[Len(y1)]))

\* The columns and cells of df are those of orig, followed by one more
\* column named newcol
AppendsOneColumn(orig, df, newcol) ==
    /\ df.cols = Append(orig.cols, newcol)
    /\ NRows(df) = NRows(orig)
    /\ \A i \in 1..NRows(orig) :
          SubSeq(df.rows[i], 1, Len(orig.cols)) = orig.rows[i]

\* C5: the key builder returns the table with every original column in
\* place and unchanged, plus exactly one more column named after the key
\* columns.
C5_KeyBuilderAppends ==
    (pc \in {"keys_ready", "merged", "done"} /\ normalize) =>
        /\ AppendsOneColumn(df1, df1n, JoinNames(key_cols1) \o "__norm")
        /\ AppendsOneColumn(df2, df2n, JoinNames(key_cols2) \o "__norm")

\* The priority list as the claim gives it
ClaimedPriority ==
    <<"Short Name", "ShortName", "Player Short Name", "Nome Curto", "Abbrev",
      "Abbreviated", "NameShort", "Player", "Jogador", "Name", "Nome">>

Common == Elems(cols1) \cap Elems(cols2)

\* C6: the guess has at most one name; it is the first alias, in priority
\* order, found in both lists; failing that the first column of the first
\* list found in the second; it is empty exactly when no name is common.
C6_BestGuess ==
    pc = "guess_done" =>
        /\ Len(guess) <= 1
        /\ (\E i \in 1..Len(ClaimedPriority) : ClaimedPriority[i] \in Common) =>
              \E i \in 1..Len(ClaimedPriority) :
                  /\ ClaimedPriority[i] \in Common
                  /\ \A j \in 1..(i - 1) : ClaimedPriority[j] \notin Common
                  /\ guess = <<ClaimedPriority[i]>>
        /\ ((\A i \in 1..Len(ClaimedPriority) : ClaimedPriority[i] \notin Common)
                /\ Common # {}) =>
              \E i \in 1..Len(cols1) :
                  /\ cols1[i] \in Common
                  /\ \A j \in 1..(i - 1) : cols1[j] \notin Common
                  /\ guess = <<cols1[i]>>
        /\ (guess = <<>>) <=> (Common = {})

\* C6 witness: Player comes first in both tables, Short Name wins
C6_Witness ==
    /\ pc = "guess_done"
    /\ cols1 = <<"Player", "Age", "Short Name">>
    /\ cols2 = <<"Player", "Short Name">>
    /\ guess = <<"Short Name">>

\* The last read of a file asked for a sheet the file does not have
UnknownSheet(file, req) ==
    req # NoSheet /\ file.kind = "workbook" /\ ~IsIn(req, file.sheets)

\* The run has ended: st.stop or an uncaught exception
Halted == pc \in {"stopped", "crashed"}

\* C7: when a read fails or asks for a sheet that does not exist the run
\* halts before any key selection, merge or download, and a run that goes on
\* never holds the table of another sheet in place of the one asked for.
C7_LoadFailureHalts ==
    /\ (\/ ~read_any(f1, req1).ok \/ ~read_any(f2, req2).ok
        \/ UnknownSheet(f1, req1) \/ UnknownSheet(f2, req2))
       => /\ pc = "start" \/ Halted
          /\ NothingSelected /\ NothingMerged
    /\ (~Halted /\ req1 # NoSheet /\ read_any(f1, req1).ok)
          => meta1.selected_sheet = req1
    /\ (~Halted /\ req2 # NoSheet /\ read_any(f2, req2).ok)
          => meta2.selected_sheet = req2

LensOK == key_cols1 # <<>> /\ key_cols2 # <<>> /\ Len(key_cols1) = Len(key_cols2)

\* C8: normalization, merge and export are reached only with two non-empty
\* key selections of the same length; with any other selection the next
\* step shows the warning and stops, nothing being normalized or merged,
\* and a stopped run takes no further step.
C8_GuardBeforeMerge ==
    [][ /\ (pc = "keys_selected" /\ ~LensOK) =>
              (pc' = "stopped" /\ ui' = "warning" /\ NothingMerged')
        /\ pc' \in {"keys_ready", "merged", "done"} => LensOK'
        /\ pc # "stopped"
      ]_vars

\* C8 witness: one key column against two, stopped with the warning
C8_Witness ==
    /\ pc = "stopped" /\ ui = "warning"
    /\ Len(key_cols1) = 1 /\ Len(key_cols2) = 2
    /\ NothingMerged

RenameApplies == IsIn("Player_SC", merged.cols) /\ ~IsIn("Player", merged.cols)

\* The names of t with Player_SC replaced by Player
Renamed(names) ==
    [k \in 1..Len(names) |-> IF names[k] = "Player_SC" THEN "Player" ELSE names[k]]

\* What C9 says of the names and values in both versions
C9_Frame ==
    /\ out.rows = merged.rows
    /\ IF RenameApplies
       THEN /\ out.cols = Renamed(merged.cols)
            /\ IsIn("Player", out.cols) /\ ~IsIn("Player_SC", out.cols)
       ELSE out.cols = merged.cols

\* C9 as stated: Player_SC becomes Player when there is no Player, nothing
\* else changes, and the result never has two columns of the same name
\* after a rename.
C9_Rename_NoTwoAlike ==
    pc = "done" => (C9_Frame /\ (RenameApplies => NoDuplicates(out.cols)))

\* C9 amended: Player_SC becomes Player when there is no Player, nothing
\* else changes, and a rename never makes two columns share a name that
\* did not share one before.
C9_Rename_NoNewClash ==
    pc = "done" =>
        (C9_Frame /\ (NoDuplicates(merged.cols) => NoDuplicates(out.cols)))

\* C9 witness: both tables have a Player column beside the key, the left
\* one comes out of the merge as Player_SC and is renamed
C9_Witness ==
    /\ pc = "done" /\ RenameApplies
    /\ IsIn("Player_SRC2", merged.cols)
    /\ NoDuplicates(merged.cols)
    /\ IsIn("Player", out.cols) /\ IsIn("Player_SRC2", out.cols)

\* The i-th key value of a row, normalized on its own
NormalizedCell(t, c, i) ==
    normalize_str(astype_str(t.rows[i][ColIndex(t, c)], Dtype(Column(t, c))),
                  DefaultFlags)

\* C10: with normalization and two or more key columns, two rows are paired
\* exactly when their normalized key values agree column by column.
C10_MatchColumnByColumn ==
    (Merged /\ normalize /\ Len(key_cols1) >= 2) =>
        \A i \in 1..NRows(df1), j \in 1..NRows(df2) :
            (<<i, j>> \in Pairs) <=>
                \A k \in 1..Len(key_cols1) :
                    NormalizedCell(df1, key_cols1[k], i)
                        = NormalizedCell(df2, key_cols2[k], j)
=============================================================================
